---- MODULE Spec2Model ----
(***************************************************************************)
(* Coalition builder: the browser client of static/js/main.js together     *)
(* with the coalition engine it talks to over HTTP.                        *)
(*                                                                         *)
(* The client is single threaded: every handler runs to its first await,   *)
(* and every continuation after an await runs as one step when its         *)
(* response is delivered.  Requests in flight are kept in issue order in   *)
(* `inflight`; the server answers them one at a time, in any order, and    *)
(* the answers are delivered to the client in any order.                   *)
(*                                                                         *)
(* Coordinates (economic, social) are kept in hundredths: -100 .. 100      *)
(* stands for -1.00 .. 1.00.                                               *)
(***************************************************************************)
EXTENDS Integers, Sequences, FiniteSets, TLC

VARIABLES
    parties,        \* main.js:1   client roster, sequence of party records
    exclusions,     \* main.js:2   sequence of rules (each a sequence of names)
    inclusions,     \* main.js:3
    dragState,      \* main.js:7   [isDragging, dragParty, containerRect]
    minInput,       \* value of #min-parties
    maxInput,       \* value of #max-parties
    pollOptions,    \* options of #poll-dropdown
    partyOptions,   \* party options of the four rule dropdowns
    partyTable,     \* rows of #party-tbody: [name, checked]
    spectrum,       \* party circles drawn in .spectrum-container
    coalitionInfo,  \* content of #coalition-info (<<>> before the first update)
    coalitionTable, \* rows of #coalition-tbody
    coalitionCount, \* content of #coalition-count
    partyInfo,      \* party shown in #party-info (<<>> while it is hidden)
    mainVisible,    \* #main-content is displayed
    started,        \* DOMContentLoaded has fired
    timer,          \* setTimeout(initializeSpectrum, 100) is pending
    alertMsg,       \* alert raised by the handler that ran last ("" if none)
    inflight,       \* requests issued and not yet resumed, in issue order
    srvParties      \* the server's Party Registry (active roster)

vars == <<parties, exclusions, inclusions, dragState, minInput, maxInput,
          pollOptions, partyOptions, partyTable, spectrum, coalitionInfo,
          coalitionTable, coalitionCount, partyInfo, mainVisible, started, timer,
          alertMsg, inflight, srvParties>>

-----------------------------------------------------------------------------
(* Bounds of the model *)

\* requests that may be in flight at once
MaxInFlight == 2
\* rules held in exclusions and inclusions together
MaxRules == 2
\* largest value typed into the min/max inputs
MaxInput == 2
\* largest coalition size asked of the engine in the engine scenario
MaxSize == 3

-----------------------------------------------------------------------------
(* Datasets served by the engine *)

Party(n, s, e, so) == [name |-> n, seats |-> s, economic |-> e, social |-> so]

Polls == <<"poll-a", "poll-b">>

\* poll-a is the scenario of the spec's section 8 (50/40/60 seats, 150 in all);
\* poll-b is a roster with a merged party, a party without seats and another total.
Dataset(poll) ==
    IF poll = "poll-a"
    THEN << Party("GL", 50, -80, 50), Party("PvdA", 40, 10, 10), Party("VVD", 60, 90, -60) >>
    ELSE << Party("GL-PvdA", 30, -50, 40), Party("VVD", 20, 90, -60), Party("PvdA", 0, 10, 10) >>

\* places where the mouse is released, as <<clientX, clientY>>
MousePoints == { <<0, 600>> }

\* bounding rectangle of .spectrum-container
ContainerRect == [left |-> 0, top |-> 0, width |-> 400, height |-> 400]

\* bounding rectangles of .spectrum-container in other layouts: narrower than,
\* as wide as, and wider than the two paddings
ContainerRects ==
    { [left |-> 0, top |-> 0, width |-> w, height |-> h] : w, h \in {60, 100, 400} }

\* places where the mouse is released, inside and outside of every container
ReleasePoints == { <<x, y>> : x, y \in {-50, 75, 200, 600} }

-----------------------------------------------------------------------------
(* Sequences *)

NULL == <<>>

Range(s) == { s[i] : i \in DOMAIN s }

\* s.splice(index, 1) with a 1-based index
RemoveAt(s, i) == [ j \in 1..(Len(s) - 1) |-> IF j < i THEN s[j] ELSE s[j + 1] ]

RECURSIVE SumSeats(_)
\* ps.reduce((sum, p) => sum + p.seats, 0)
SumSeats(ps) == IF ps = <<>> THEN 0 ELSE Head(ps).seats + SumSeats(Tail(ps))

Names(ps) == [ i \in DOMAIN ps |-> ps[i].name ]

Max(a, b) == IF a > b THEN a ELSE b
Min(a, b) == IF a < b THEN a ELSE b

-----------------------------------------------------------------------------
(* JavaScript strings: Array.prototype.join and the default sort order *)

\* UTF-16 code units of the party names that occur in the datasets
CodeUnits(name) ==
    CASE name = "GL"      -> <<71, 76>>
      [] name = "PvdA"    -> <<80, 118, 100, 65>>
      [] name = "VVD"     -> <<86, 86, 68>>
      [] name = "GL-PvdA" -> <<71, 76, 45, 80, 118, 100, 65>>
      [] OTHER            -> <<>>

RECURSIVE SeqLess(_, _)
\* a < b on strings: lexicographic comparison of code units
SeqLess(a, b) ==
    IF b = <<>> THEN FALSE
    ELSE IF a = <<>> THEN TRUE
    ELSE IF Head(a) # Head(b) THEN Head(a) < Head(b)
    ELSE SeqLess(Tail(a), Tail(b))

StrLess(a, b) == SeqLess(CodeUnits(a), CodeUnits(b))

\* variant of SortPair that keeps the dropdown order (the sort left out)
SortPairUnsorted(party1, party2) == <<party1, party2>>

\* [party1, party2].sort()
SortPair(party1, party2) ==
    IF StrLess(party2, party1) THEN <<party2, party1>> ELSE <<party1, party2>>

RECURSIVE Join(_)
\* rule.join('-')
Join(rule) ==
    IF rule = <<>> THEN ""
    ELSE IF Len(rule) = 1 THEN rule[1]
    ELSE rule[1] \o "-" \o Join(Tail(rule))

\* list.some(r => r.join('-') === str)
SomeJoined(list, str) == \E i \in DOMAIN list : Join(list[i]) = str

-----------------------------------------------------------------------------
(* Requests in flight.  An entry is [url, body, resp]; resp is NULL until the *)
(* request is settled, then <<[threw, data]>>.                                *)

\* fetch(url, {body}): the request is issued when the call is made
Fetch(net, url, body) == Append(net, [url |-> url, body |-> body, resp |-> NULL])

Pending(i) == i \in DOMAIN inflight /\ inflight[i].resp = NULL
Settled(i, url) ==
    i \in DOMAIN inflight /\ inflight[i].url = url /\ inflight[i].resp # NULL

-----------------------------------------------------------------------------
(* Rendering functions of the client *)

\* populatePartyTable: one unchecked row per party of the roster
populatePartyTable(ps) == [ i \in DOMAIN ps |-> [name |-> ps[i].name, checked |-> FALSE] ]

\* populateDropdowns: the parties that hold seats
populateDropdowns(ps) == Names(SelectSeq(ps, LAMBDA p : p.seats > 0))

\* updateSpectrum: one circle per party, parties without seats skipped
updateSpectrum(ps) == SelectSeq(ps, LAMBDA p : p.seats # 0)

\* document.querySelectorAll('.party-checkbox:checked').map(cb => cb.dataset.party)
selectedParties(table) == Names(SelectSeq(table, LAMBDA r : r.checked))

\* seats a coalition needs, as written in updateVisualization
MajoritySeats == 76
\* chamber size, as written in updateVisualization
ChamberSeats == 150

\* updateVisualization: the content of #coalition-info
updateVisualization(table, ps) ==
    LET selected == Range(selectedParties(table))
        coalitionSeats == SumSeats(SelectSeq(ps, LAMBDA p : p.name \in selected))
    IN  << [ seats    |-> coalitionSeats,
             of       |-> ChamberSeats,
             majority |-> coalitionSeats >= MajoritySeats,
             needed   |-> IF coalitionSeats >= MajoritySeats THEN 0
                          ELSE MajoritySeats - coalitionSeats ] >>

\* updateVisualization ends by reading parties[index].name for every table row;
\* that read throws when the table has more rows than the roster has parties
updateVisualizationThrows(table, ps) == Len(table) > Len(ps)

\* variant of updateCoalitions without the min > max test
updateCoalitionsUnguarded(net, minParties, maxParties, excl, incl) ==
    [ inflight |-> Fetch(net, "/api/coalitions",
                         [ min_parties |-> minParties, max_parties |-> maxParties,
                           exclusions |-> excl, inclusions |-> incl ]),
      minInput |-> minParties,
      alert |-> "" ]

\* variant of updateCoalitions that always writes max into the min input
updateCoalitionsResetsMin(net, minParties, maxParties, excl, incl) ==
    IF minParties > maxParties
    THEN [ inflight |-> net, minInput |-> maxParties,
           alert |-> "Minimum parties cannot be greater than maximum parties" ]
    ELSE [ inflight |-> Fetch(net, "/api/coalitions",
                              [ min_parties |-> minParties, max_parties |-> maxParties,
                                exclusions |-> excl, inclusions |-> incl ]),
           minInput |-> maxParties,
           alert |-> "" ]

\* updateCoalitions, up to its await: the request list, the min input and the
\* alert it leaves
updateCoalitions(net, minParties, maxParties, excl, incl) ==
    IF minParties > maxParties
    THEN [ inflight |-> net, minInput |-> maxParties,
           alert |-> "Minimum parties cannot be greater than maximum parties" ]
    ELSE [ inflight |-> Fetch(net, "/api/coalitions",
                              [ min_parties |-> minParties, max_parties |-> maxParties,
                                exclusions |-> excl, inclusions |-> incl ]),
           minInput |-> minParties,
           alert |-> "" ]

-----------------------------------------------------------------------------
(* The coalition engine behind /api (sections 4 and 6 of the specification) *)

\* variant of Combinations that keeps only runs of k neighbours
CombinationsOfNeighbours(s, k) ==
    [ i \in 1..(Len(s) - k + 1) |-> SubSeq(s, i, i + k - 1) ]

RECURSIVE Combinations(_, _)
\* the k-combinations of the sequence s, each in the order of s
Combinations(s, k) ==
    IF k = 0 THEN << <<>> >>
    ELSE IF Len(s) < k THEN <<>>
    ELSE [ i \in DOMAIN Combinations(Tail(s), k - 1) |->
               <<Head(s)>> \o Combinations(Tail(s), k - 1)[i] ]
         \o Combinations(Tail(s), k)

RECURSIVE CombinationsFrom(_, _, _)
\* the union of the k-combinations for k in minSize .. maxSize
CombinationsFrom(s, minSize, maxSize) ==
    IF minSize > maxSize THEN <<>>
    ELSE Combinations(s, minSize) \o CombinationsFrom(s, minSize + 1, maxSize)

\* variant of enumerate that ignores the requested sizes
enumerateAllSizes(ps, minSize, maxSize) ==
    CombinationsFrom(SelectSeq(ps, LAMBDA p : p.seats > 0), 1, Len(ps))

\* 4.2 enumerate: subsets of the seat-holding parties with minSize..maxSize members
enumerate(ps, minSize, maxSize) ==
    CombinationsFrom(SelectSeq(ps, LAMBDA p : p.seats > 0), minSize, maxSize)

\* variant of admissible that takes an inclusion as met by either member
admissibleEitherMember(subset, excl, incl) ==
    LET members == Range(Names(subset))
    IN  \A i \in DOMAIN excl : ~ (Range(excl[i]) \subseteq members)

\* 4.3 admissible: no exclusion lies wholly inside the subset, and every
\* inclusion pair is inside it with both members or with none
admissible(subset, excl, incl) ==
    LET members == Range(Names(subset))
    IN  /\ \A i \in DOMAIN excl : ~ (Range(excl[i]) \subseteq members)
        /\ \A i \in DOMAIN incl :
               (incl[i][1] \in members) <=> (incl[i][2] \in members)

\* 4.4 score: the member names and the sum of the members' seats
score(subset) == [ parties |-> Names(subset), seats |-> SumSeats(subset) ]

RECURSIVE InsertBySeats(_, _)
\* c put into a list ordered by descending seats, after the entries that tie
InsertBySeats(c, list) ==
    IF list = <<>> THEN <<c>>
    ELSE IF c.seats > Head(list).seats THEN <<c>> \o list
    ELSE <<Head(list)>> \o InsertBySeats(c, Tail(list))

RECURSIVE rank(_)
\* 4.5 rank: descending seats, ties in enumeration order
rank(scored) ==
    IF scored = <<>> THEN <<>>
    ELSE InsertBySeats(scored[Len(scored)], rank(SubSeq(scored, 1, Len(scored) - 1)))

\* POST /api/coalitions
Coalitions(registry, body) ==
    LET subsets == enumerate(registry, body.min_parties, body.max_parties)
        kept    == SelectSeq(subsets,
                             LAMBDA c : admissible(c, body.exclusions, body.inclusions))
        ranked  == rank([ i \in DOMAIN kept |-> score(kept[i]) ])
    IN  [ coalitions |-> ranked, total_count |-> Len(ranked) ]

Clamp(v) == Max(-100, Min(100, v))

\* 4.1 updatePosition: the registry with the named party moved, clamped to [-1, 1]
updatePosition(registry, body) ==
    [ i \in DOMAIN registry |->
        IF registry[i].name = body.party_name
        THEN [ registry[i] EXCEPT !.economic = Clamp(body.economic[1]),
                                  !.social = Clamp(body.social[1]) ]
        ELSE registry[i] ]

\* the registry after the request, and the JSON it is answered with
Respond(registry, req) ==
    CASE req.url = "/api/initialize" ->
           [ registry |-> registry,
             data |-> [ success |-> TRUE, parties |-> registry,
                        total_seats |-> SumSeats(registry), polls |-> Polls ] ]
      [] req.url = "/api/change_poll" ->
           IF req.body.poll_name \in Range(Polls)
           THEN [ registry |-> Dataset(req.body.poll_name),
                  data |-> [ success |-> TRUE, parties |-> Dataset(req.body.poll_name),
                             total_seats |-> SumSeats(Dataset(req.body.poll_name)) ] ]
           ELSE [ registry |-> registry, data |-> [ success |-> FALSE ] ]
      [] req.url = "/api/update_position" ->
           IF /\ req.body.party_name \in Range(Names(registry))
              /\ req.body.economic # NULL
              /\ req.body.social # NULL
           THEN [ registry |-> updatePosition(registry, req.body),
                  data |-> [ success |-> TRUE,
                             parties |-> updatePosition(registry, req.body) ] ]
           ELSE [ registry |-> registry, data |-> [ success |-> FALSE ] ]
      [] req.url = "/api/coalitions" ->
           [ registry |-> registry, data |-> Coalitions(registry, req.body) ]
      [] OTHER ->
           [ registry |-> registry, data |-> [ success |-> TRUE ] ]

Settle(i, threw, data) ==
    inflight' = [ inflight EXCEPT ![i].resp = << [threw |-> threw, data |-> data] >> ]

ClientUnchanged ==
    UNCHANGED <<parties, exclusions, inclusions, dragState, minInput, maxInput,
                pollOptions, partyOptions, partyTable, spectrum, coalitionInfo,
                coalitionTable, coalitionCount, partyInfo, mainVisible, started, timer,
                alertMsg>>

\* the server handles request i and answers it
ServerHandle(i) ==
    /\ Pending(i)
    /\ LET r == Respond(srvParties, inflight[i])
       IN  /\ srvParties' = r.registry
           /\ Settle(i, FALSE, r.data)
    /\ ClientUnchanged

\* the server cannot load the dataset: a failure response, nothing is changed
ServerFail(i) ==
    /\ Pending(i)
    /\ inflight[i].url \in {"/api/initialize", "/api/change_poll"}
    /\ Settle(i, FALSE, [ success |-> FALSE ])
    /\ UNCHANGED srvParties
    /\ ClientUnchanged

\* the request does not reach the server: fetch rejects
NetworkError(i) ==
    /\ Pending(i)
    /\ Settle(i, TRUE, NULL)
    /\ UNCHANGED srvParties
    /\ ClientUnchanged

-----------------------------------------------------------------------------
(* The client: initial state and page load *)

Idle == [ isDragging |-> FALSE, dragParty |-> NULL, startX |-> 0, startY |-> 0,
          containerRect |-> NULL ]

Init ==
    /\ parties = <<>>
    /\ exclusions = <<>>
    /\ inclusions = <<>>
    /\ dragState = Idle
    /\ minInput = 1
    /\ maxInput = MaxInput
    /\ pollOptions = <<>>
    /\ partyOptions = <<>>
    /\ partyTable = <<>>
    /\ spectrum = <<>>
    /\ coalitionInfo = <<>>
    /\ coalitionTable = <<>>
    /\ coalitionCount = 0
    /\ partyInfo = NULL
    /\ mainVisible = FALSE
    /\ started = FALSE
    /\ timer = FALSE
    /\ alertMsg = ""
    /\ inflight = <<>>
    /\ srvParties \in { Dataset(Polls[k]) : k \in DOMAIN Polls }

\* the request list may hold what the handler leaves in it
Room(net) == Len(net) <= MaxInFlight

\* DOMContentLoaded: initialize() up to its await
DOMContentLoaded ==
    /\ ~ started
    /\ started' = TRUE
    /\ inflight' = Fetch(inflight, "/api/initialize", NULL)
    /\ UNCHANGED <<parties, exclusions, inclusions, dragState, minInput, maxInput,
                   pollOptions, partyOptions, partyTable, spectrum, coalitionInfo,
                   coalitionTable, coalitionCount, partyInfo, mainVisible, timer, alertMsg,
                   srvParties>>

\* variant of initializeResume that calls updateCoalitions whatever the answer is
initializeResumeEager(i) ==
    /\ Settled(i, "/api/initialize")
    /\ LET r    == inflight[i].resp[1]
           rest == RemoveAt(inflight, i)
           uc   == updateCoalitions(rest, minInput, maxInput, exclusions, inclusions)
       IN  IF r.threw \/ ~ r.data.success
           THEN /\ alertMsg' = IF r.threw THEN "Failed to initialize" ELSE "Error"
                /\ inflight' = uc.inflight
                /\ minInput' = uc.minInput
                /\ UNCHANGED <<parties, partyTable, partyOptions,
                               mainVisible, pollOptions, timer>>
           ELSE /\ parties' = r.data.parties
                /\ partyTable' = populatePartyTable(r.data.parties)
                /\ partyOptions' = populateDropdowns(r.data.parties)
                /\ inflight' = uc.inflight
                /\ minInput' = uc.minInput
                /\ alertMsg' = uc.alert
                /\ mainVisible' = TRUE
                /\ pollOptions' = r.data.polls
                /\ timer' = TRUE
    /\ UNCHANGED <<exclusions, inclusions, dragState, maxInput, spectrum,
                   coalitionInfo, coalitionTable, coalitionCount, partyInfo, started, srvParties>>

\* initialize() after its await
initializeResume(i) ==
    /\ Settled(i, "/api/initialize")
    /\ LET r    == inflight[i].resp[1]
           rest == RemoveAt(inflight, i)
       IN  IF r.threw \/ ~ r.data.success
           THEN /\ alertMsg' = IF r.threw THEN "Failed to initialize" ELSE "Error"
                /\ inflight' = rest
                /\ UNCHANGED <<parties, partyTable, partyOptions, minInput,
                               mainVisible, pollOptions, timer>>
           ELSE LET uc == updateCoalitions(rest, minInput, maxInput,
                                           exclusions, inclusions)
                IN  /\ parties' = r.data.parties
                    /\ partyTable' = populatePartyTable(r.data.parties)
                    /\ partyOptions' = populateDropdowns(r.data.parties)
                    /\ inflight' = uc.inflight
                    /\ minInput' = uc.minInput
                    /\ alertMsg' = uc.alert
                    /\ mainVisible' = TRUE
                    /\ pollOptions' = r.data.polls
                    /\ timer' = TRUE
    /\ UNCHANGED <<exclusions, inclusions, dragState, maxInput, spectrum,
                   coalitionInfo, coalitionTable, coalitionCount, partyInfo, started, srvParties>>

\* the timer set by initialize() fires: initializeSpectrum()
initializeSpectrum ==
    /\ timer
    /\ timer' = FALSE
    /\ spectrum' = updateSpectrum(parties)
    /\ UNCHANGED <<parties, exclusions, inclusions, dragState, minInput, maxInput,
                   pollOptions, partyOptions, partyTable, coalitionInfo,
                   coalitionTable, coalitionCount, partyInfo, mainVisible, started, alertMsg,
                   inflight, srvParties>>

\* changePoll() up to its await, with the poll chosen in #poll-dropdown
changePoll(selectedPoll) ==
    /\ mainVisible
    /\ selectedPoll # ""
    /\ inflight' = Fetch(inflight, "/api/change_poll", [ poll_name |-> selectedPoll ])
    /\ Room(inflight')
    /\ alertMsg' = ""
    /\ UNCHANGED <<parties, exclusions, inclusions, dragState, minInput, maxInput,
                   pollOptions, partyOptions, partyTable, spectrum, coalitionInfo,
                   coalitionTable, coalitionCount, partyInfo, mainVisible, started, timer,
                   srvParties>>

\* variant of changePollResume that does not call updateCoalitions
changePollResumeNoRefresh(i) ==
    /\ Settled(i, "/api/change_poll")
    /\ LET r    == inflight[i].resp[1]
           rest == RemoveAt(inflight, i)
       IN  IF r.threw \/ ~ r.data.success
           THEN /\ alertMsg' = IF r.threw THEN "Failed to change poll" ELSE ""
                /\ inflight' = rest
                /\ UNCHANGED <<parties, partyTable, partyOptions, minInput, spectrum>>
           ELSE /\ parties' = r.data.parties
                /\ partyTable' = populatePartyTable(r.data.parties)
                /\ partyOptions' = populateDropdowns(r.data.parties)
                /\ inflight' = rest
                /\ alertMsg' = ""
                /\ spectrum' = updateSpectrum(r.data.parties)
                /\ UNCHANGED minInput
    /\ UNCHANGED <<exclusions, inclusions, dragState, maxInput, pollOptions,
                   coalitionInfo, coalitionTable, coalitionCount, partyInfo, mainVisible,
                   started, timer, srvParties>>

\* changePoll() after its await
changePollResume(i) ==
    /\ Settled(i, "/api/change_poll")
    /\ LET r    == inflight[i].resp[1]
           rest == RemoveAt(inflight, i)
       IN  IF r.threw \/ ~ r.data.success
           THEN /\ alertMsg' = IF r.threw THEN "Failed to change poll" ELSE ""
                /\ inflight' = rest
                /\ UNCHANGED <<parties, partyTable, partyOptions, minInput, spectrum>>
           ELSE LET uc == updateCoalitions(rest, minInput, maxInput,
                                           exclusions, inclusions)
                IN  /\ parties' = r.data.parties
                    /\ partyTable' = populatePartyTable(r.data.parties)
                    /\ partyOptions' = populateDropdowns(r.data.parties)
                    /\ inflight' = uc.inflight
                    /\ minInput' = uc.minInput
                    /\ alertMsg' = uc.alert
                    /\ spectrum' = updateSpectrum(r.data.parties)
    /\ UNCHANGED <<exclusions, inclusions, dragState, maxInput, pollOptions,
                   coalitionInfo, coalitionTable, coalitionCount, partyInfo, mainVisible,
                   started, timer, srvParties>>

-----------------------------------------------------------------------------
(* The client: range inputs and constraint rules *)

\* 'change' on #min-parties: updateCoalitions() up to its await
changeMin(value) ==
    /\ mainVisible
    /\ value # minInput
    /\ LET uc == updateCoalitions(inflight, value, maxInput, exclusions, inclusions)
       IN  /\ inflight' = uc.inflight
           /\ minInput' = uc.minInput
           /\ alertMsg' = uc.alert
    /\ Room(inflight')
    /\ UNCHANGED <<parties, exclusions, inclusions, dragState, maxInput,
                   pollOptions, partyOptions, partyTable, spectrum, coalitionInfo,
                   coalitionTable, coalitionCount, partyInfo, mainVisible, started, timer,
                   srvParties>>

\* 'change' on #max-parties: updateCoalitions() up to its await
changeMax(value) ==
    /\ mainVisible
    /\ value # maxInput
    /\ maxInput' = value
    /\ LET uc == updateCoalitions(inflight, minInput, value, exclusions, inclusions)
       IN  /\ inflight' = uc.inflight
           /\ minInput' = uc.minInput
           /\ alertMsg' = uc.alert
    /\ Room(inflight')
    /\ UNCHANGED <<parties, exclusions, inclusions, dragState,
                   pollOptions, partyOptions, partyTable, spectrum, coalitionInfo,
                   coalitionTable, coalitionCount, partyInfo, mainVisible, started, timer,
                   srvParties>>

\* 'change' on a range input whose text is rewritten to the same number
\* (1 to 01): parseInt gives the value it gave before, updateCoalitions() runs
retypeInput ==
    /\ mainVisible
    /\ LET uc == updateCoalitions(inflight, minInput, maxInput, exclusions, inclusions)
       IN  /\ inflight' = uc.inflight
           /\ minInput' = uc.minInput
           /\ alertMsg' = uc.alert
    /\ Room(inflight')
    /\ UNCHANGED <<parties, exclusions, inclusions, dragState, maxInput,
                   pollOptions, partyOptions, partyTable, spectrum, coalitionInfo,
                   coalitionTable, coalitionCount, partyInfo, mainVisible, started, timer,
                   srvParties>>

\* the rule addExclusion builds from the two dropdown values
exclusionOf(party1, party2) ==
    IF party2 = "" THEN <<party1>> ELSE SortPair(party1, party2)

\* variant of exclusionRejection that does not look at the inclusions
exclusionRejectionNoConflict(party1, party2, excl, incl) ==
    IF party1 = "" THEN "Please select at least one party"
    ELSE IF party2 # "" /\ party1 = party2 THEN "Please select two different parties"
    ELSE IF SomeJoined(excl, Join(exclusionOf(party1, party2)))
         THEN "This exclusion already exists"
    ELSE ""

\* the alert with which addExclusion rejects the request, "" when it accepts
exclusionRejection(party1, party2, excl, incl) ==
    IF party1 = "" THEN "Please select at least one party"
    ELSE IF party2 # "" /\ party1 = party2 THEN "Please select two different parties"
    ELSE IF SomeJoined(excl, Join(exclusionOf(party1, party2)))
         THEN "This exclusion already exists"
    ELSE IF SomeJoined(incl, Join(exclusionOf(party1, party2)))
         THEN "These parties are already set as inclusions"
    ELSE ""

\* the alert with which addInclusion rejects the request, "" when it accepts
inclusionRejection(party1, party2, excl, incl) ==
    IF party1 = "" \/ party2 = "" THEN "Please select two parties"
    ELSE IF party1 = party2 THEN "Please select two different parties"
    ELSE IF SomeJoined(incl, Join(SortPair(party1, party2)))
         THEN "This inclusion already exists"
    ELSE IF SomeJoined(excl, Join(SortPair(party1, party2)))
         THEN "These parties are already set as exclusions"
    ELSE ""

\* the values a rule dropdown can hold
DropdownValues == Range(partyOptions) \cup {""}

addExclusion(party1, party2) ==
    /\ mainVisible
    /\ LET rejection == exclusionRejection(party1, party2, exclusions, inclusions)
       IN  IF rejection # ""
           THEN /\ alertMsg' = rejection
                /\ UNCHANGED <<exclusions, inflight, minInput>>
           ELSE LET pushed == Append(exclusions, exclusionOf(party1, party2))
                    uc == updateCoalitions(inflight, minInput, maxInput,
                                           pushed, inclusions)
                IN  /\ Len(pushed) + Len(inclusions) <= MaxRules
                    /\ exclusions' = pushed
                    /\ inflight' = uc.inflight
                    /\ minInput' = uc.minInput
                    /\ alertMsg' = uc.alert
    /\ Room(inflight')
    /\ UNCHANGED <<parties, inclusions, dragState, maxInput,
                   pollOptions, partyOptions, partyTable, spectrum, coalitionInfo,
                   coalitionTable, coalitionCount, partyInfo, mainVisible, started, timer,
                   srvParties>>

\* variant of addInclusion that pushes the rule and refreshes before its checks
addInclusionPushFirst(party1, party2) ==
    /\ mainVisible
    /\ LET rejection == inclusionRejection(party1, party2, exclusions, inclusions)
           pushed == Append(inclusions, SortPair(party1, party2))
           uc == updateCoalitions(inflight, minInput, maxInput, exclusions, pushed)
       IN  /\ Len(exclusions) + Len(pushed) <= MaxRules
           /\ inclusions' = pushed
           /\ inflight' = uc.inflight
           /\ minInput' = uc.minInput
           /\ alertMsg' = IF rejection # "" THEN rejection ELSE uc.alert
    /\ Room(inflight')
    /\ UNCHANGED <<parties, exclusions, dragState, maxInput,
                   pollOptions, partyOptions, partyTable, spectrum, coalitionInfo,
                   coalitionTable, coalitionCount, partyInfo, mainVisible, started, timer,
                   srvParties>>

addInclusion(party1, party2) ==
    /\ mainVisible
    /\ LET rejection == inclusionRejection(party1, party2, exclusions, inclusions)
       IN  IF rejection # ""
           THEN /\ alertMsg' = rejection
                /\ UNCHANGED <<inclusions, inflight, minInput>>
           ELSE LET pushed == Append(inclusions, SortPair(party1, party2))
                    uc == updateCoalitions(inflight, minInput, maxInput,
                                           exclusions, pushed)
                IN  /\ Len(exclusions) + Len(pushed) <= MaxRules
                    /\ inclusions' = pushed
                    /\ inflight' = uc.inflight
                    /\ minInput' = uc.minInput
                    /\ alertMsg' = uc.alert
    /\ Room(inflight')
    /\ UNCHANGED <<parties, exclusions, dragState, maxInput,
                   pollOptions, partyOptions, partyTable, spectrum, coalitionInfo,
                   coalitionTable, coalitionCount, partyInfo, mainVisible, started, timer,
                   srvParties>>

removeExclusion(index) ==
    /\ index \in DOMAIN exclusions
    /\ exclusions' = RemoveAt(exclusions, index)
    /\ LET uc == updateCoalitions(inflight, minInput, maxInput, exclusions', inclusions)
       IN  /\ inflight' = uc.inflight
           /\ minInput' = uc.minInput
           /\ alertMsg' = uc.alert
    /\ Room(inflight')
    /\ UNCHANGED <<parties, inclusions, dragState, maxInput,
                   pollOptions, partyOptions, partyTable, spectrum, coalitionInfo,
                   coalitionTable, coalitionCount, partyInfo, mainVisible, started, timer,
                   srvParties>>

removeInclusion(index) ==
    /\ index \in DOMAIN inclusions
    /\ inclusions' = RemoveAt(inclusions, index)
    /\ LET uc == updateCoalitions(inflight, minInput, maxInput, exclusions, inclusions')
       IN  /\ inflight' = uc.inflight
           /\ minInput' = uc.minInput
           /\ alertMsg' = uc.alert
    /\ Room(inflight')
    /\ UNCHANGED <<parties, exclusions, dragState, maxInput,
                   pollOptions, partyOptions, partyTable, spectrum, coalitionInfo,
                   coalitionTable, coalitionCount, partyInfo, mainVisible, started, timer,
                   srvParties>>

\* updateCoalitions() after its await: displayCoalitions and the count
updateCoalitionsResume(i) ==
    /\ Settled(i, "/api/coalitions")
    /\ LET r == inflight[i].resp[1]
       IN  IF r.threw
           THEN UNCHANGED <<coalitionTable, coalitionCount>>
           ELSE /\ coalitionTable' = r.data.coalitions
                /\ coalitionCount' = r.data.total_count
    /\ inflight' = RemoveAt(inflight, i)
    /\ alertMsg' = ""
    /\ UNCHANGED <<parties, exclusions, inclusions, dragState, minInput, maxInput,
                   pollOptions, partyOptions, partyTable, spectrum, coalitionInfo,
                   partyInfo, mainVisible, started, timer, srvParties>>

-----------------------------------------------------------------------------
(* The client: party selection *)

\* a click on a party row or its checkbox: the box toggles, updateVisualization()
toggleCheckbox(index) ==
    /\ index \in DOMAIN partyTable
    /\ partyTable' = [ partyTable EXCEPT ![index].checked = ~ partyTable[index].checked ]
    /\ coalitionInfo' = updateVisualization(partyTable', parties)
    /\ spectrum' = updateSpectrum(parties)
    /\ alertMsg' = ""
    /\ UNCHANGED <<parties, exclusions, inclusions, dragState, minInput, maxInput,
                   pollOptions, partyOptions, coalitionTable, coalitionCount,
                   partyInfo, mainVisible, started, timer, inflight, srvParties>>

\* selectCoalition: every box cleared, then the boxes of the coalition's parties
\* that have a row checked
checkCoalition(table, coalitionParties) ==
    [ i \in DOMAIN table |->
        [ table[i] EXCEPT !.checked = table[i].name \in Range(coalitionParties) ] ]

\* a click on row `index` of the coalition table: selectCoalition() up to its await
selectCoalition(index) ==
    /\ index \in DOMAIN coalitionTable
    /\ LET coalitionParties == coalitionTable[index].parties
       IN  /\ partyTable' = checkCoalition(partyTable, coalitionParties)
           /\ coalitionInfo' = updateVisualization(partyTable', parties)
           /\ spectrum' = updateSpectrum(parties)
           /\ inflight' = IF updateVisualizationThrows(partyTable', parties)
                          THEN inflight
                          ELSE Fetch(inflight, "/api/select_coalition",
                                     [ parties |-> coalitionParties ])
    /\ Room(inflight')
    /\ alertMsg' = ""
    /\ UNCHANGED <<parties, exclusions, inclusions, dragState, minInput, maxInput,
                   pollOptions, partyOptions, coalitionTable, coalitionCount,
                   partyInfo, mainVisible, started, timer, srvParties>>

\* selectCoalition() after its await: nothing is left to do
selectCoalitionResume(i) ==
    /\ Settled(i, "/api/select_coalition")
    /\ inflight' = RemoveAt(inflight, i)
    /\ alertMsg' = ""
    /\ UNCHANGED <<parties, exclusions, inclusions, dragState, minInput, maxInput,
                   pollOptions, partyOptions, partyTable, spectrum, coalitionInfo,
                   coalitionTable, coalitionCount, partyInfo, mainVisible, started, timer,
                   srvParties>>

-----------------------------------------------------------------------------
(* The client: dragging a party on the spectrum *)

\* margin of the spectrum inside its container, in pixels
Padding == 50

\* the coordinate handleMouseUp computes from a mouse position along one axis:
\* ((constrained - padding) / usable) * 2 - 1, as <<hundredths>>, or NULL for
\* NaN (0 / 0, when the container is exactly two paddings wide).  The division
\* is JavaScript's: a negative `usable` divides as any other number.
AxisValue(mouse, origin, extent) ==
    LET constrained == Max(Padding, Min(extent - Padding, mouse - origin))
        usable      == extent - Padding * 2
    IN  IF usable > 0
        THEN << ((constrained - Padding) * 200) \div usable - 100 >>
        ELSE IF usable < 0
        THEN << 0 - (((constrained - Padding) * 200) \div (0 - usable)) - 100 >>
        ELSE NULL

\* -(x), NaN staying NaN
Negate(x) == IF x = NULL THEN NULL ELSE << 0 - x[1] >>

\* mousedown on circle `index` of the spectrum, the container being at `rect`
\* The row of #party-tbody whose checkbox carries data-party = name
\* (0 when there is none).
checkboxOf(table, name) ==
    LET rows == { k \in DOMAIN table : table[k].name = name }
    IN  IF rows = {} THEN 0 ELSE CHOOSE k \in rows : \A j \in rows : k <= j

\* What partyElement.onclick of the circle drawn for spectrum[index] leaves in
\* the info panel and in the party table: nothing new while a drag is marked
\* as running, otherwise the party's info and its checkbox toggled.
clicked(index) ==
    LET party == spectrum[index]
        row   == checkboxOf(partyTable, party.name)
    IN  IF dragState.isDragging
        THEN [ partyInfo |-> partyInfo, partyTable |-> partyTable, toggled |-> FALSE ]
        ELSE [ partyInfo  |-> << party >>,
               partyTable |-> IF row = 0 THEN partyTable
                              ELSE [ partyTable EXCEPT
                                       ![row].checked = ~ partyTable[row].checked ],
               toggled    |-> row # 0 ]

onclick(index) ==
    /\ index \in DOMAIN spectrum
    /\ partyInfo' = clicked(index).partyInfo
    /\ partyTable' = clicked(index).partyTable
    /\ IF clicked(index).toggled
       THEN /\ coalitionInfo' = updateVisualization(partyTable', parties)
            /\ spectrum' = updateSpectrum(parties)
       ELSE UNCHANGED <<coalitionInfo, spectrum>>
    /\ alertMsg' = ""
    /\ UNCHANGED <<parties, exclusions, inclusions, dragState, minInput, maxInput,
                   pollOptions, partyOptions, coalitionTable, coalitionCount,
                   mainVisible, started, timer, inflight, srvParties>>

startDrag(index, rect) ==
    /\ index \in DOMAIN spectrum
    /\ dragState' = [ dragState EXCEPT !.isDragging = TRUE,
                                       !.dragParty = << spectrum[index] >>,
                                       !.containerRect = << rect >> ]
    /\ alertMsg' = ""
    /\ UNCHANGED <<parties, exclusions, inclusions, minInput, maxInput,
                   pollOptions, partyOptions, partyTable, spectrum, coalitionInfo,
                   coalitionTable, coalitionCount, partyInfo, mainVisible, started, timer,
                   inflight, srvParties>>

\* mouseup anywhere in the document: handleMouseUp() up to its await
handleMouseUp(e) ==
    /\ dragState.isDragging
    /\ dragState.dragParty # NULL
    /\ LET containerRect == dragState.containerRect[1]
           economic == AxisValue(e[1], containerRect.left, containerRect.width)
           social   == Negate(AxisValue(e[2], containerRect.top, containerRect.height))
       IN  inflight' = Fetch(inflight, "/api/update_position",
                             [ party_name |-> dragState.dragParty[1].name,
                               economic |-> economic, social |-> social ])
    /\ Room(inflight')
    /\ alertMsg' = ""
    /\ UNCHANGED <<parties, exclusions, inclusions, dragState, minInput, maxInput,
                   pollOptions, partyOptions, partyTable, spectrum, coalitionInfo,
                   coalitionTable, coalitionCount, partyInfo, mainVisible, started, timer,
                   srvParties>>

\* parties.find(...) followed by showPartyInfo(updatedParty): the panel shows
\* the first party of that name, and keeps its content when there is none.
showUpdatedParty(roster, name, shown) ==
    LET found == SelectSeq(roster, LAMBDA p : p.name = name)
    IN  IF found = <<>> THEN shown ELSE << found[1] >>

\* handleMouseUp() after its await with the clean-up moved into the success
\* branch: a failed call leaves the drag state as it is.
handleMouseUpResumeCleanupOnSuccess(i) ==
    /\ Settled(i, "/api/update_position")
    /\ LET r    == inflight[i].resp[1]
           rest == RemoveAt(inflight, i)
       IN  IF r.threw \/ ~ r.data.success
           THEN /\ inflight' = rest
                /\ alertMsg' = ""
                /\ UNCHANGED <<parties, spectrum, minInput, partyInfo, dragState>>
           ELSE LET uc == updateCoalitions(rest, minInput, maxInput,
                                           exclusions, inclusions)
                IN  /\ parties' = r.data.parties
                    /\ spectrum' = updateSpectrum(r.data.parties)
                    /\ inflight' = uc.inflight
                    /\ minInput' = uc.minInput
                    /\ alertMsg' = uc.alert
                    /\ partyInfo' = IF dragState.dragParty = NULL
                                    THEN partyInfo
                                    ELSE showUpdatedParty(r.data.parties,
                                                          dragState.dragParty[1].name,
                                                          partyInfo)
                    /\ dragState' = IF dragState.dragParty = NULL
                                    THEN dragState
                                    ELSE [ dragState EXCEPT !.isDragging = FALSE,
                                                            !.dragParty = NULL,
                                                            !.containerRect = NULL ]
    /\ UNCHANGED <<exclusions, inclusions, maxInput, pollOptions, partyOptions,
                   partyTable, coalitionInfo, coalitionTable, coalitionCount,
                   mainVisible, started, timer, srvParties>>

\* handleMouseUp() after its await.  Reading dragState.dragParty.name throws
\* when dragParty is null: inside the try the catch takes it, in the clean-up
\* it ends the function before the drag state is reset.
handleMouseUpResume(i) ==
    /\ Settled(i, "/api/update_position")
    /\ LET r    == inflight[i].resp[1]
           rest == RemoveAt(inflight, i)
       IN  IF r.threw \/ ~ r.data.success
           THEN /\ inflight' = rest
                /\ alertMsg' = ""
                /\ UNCHANGED <<parties, spectrum, minInput, partyInfo>>
           ELSE LET uc == updateCoalitions(rest, minInput, maxInput,
                                           exclusions, inclusions)
                IN  /\ parties' = r.data.parties
                    /\ spectrum' = updateSpectrum(r.data.parties)
                    /\ inflight' = uc.inflight
                    /\ minInput' = uc.minInput
                    /\ alertMsg' = uc.alert
                    /\ partyInfo' = IF dragState.dragParty = NULL
                                    THEN partyInfo
                                    ELSE showUpdatedParty(r.data.parties,
                                                          dragState.dragParty[1].name,
                                                          partyInfo)
    /\ dragState' = IF dragState.dragParty = NULL
                    THEN dragState
                    ELSE [ dragState EXCEPT !.isDragging = FALSE,
                                            !.dragParty = NULL,
                                            !.containerRect = NULL ]
    /\ UNCHANGED <<exclusions, inclusions, maxInput, pollOptions, partyOptions,
                   partyTable, coalitionInfo, coalitionTable, coalitionCount,
                   mainVisible, started, timer, srvParties>>

-----------------------------------------------------------------------------
(* The system *)

Page ==
    \/ DOMContentLoaded
    \/ initializeSpectrum
    \/ \E i \in DOMAIN inflight : initializeResume(i)

Server == \E i \in DOMAIN inflight : ServerHandle(i)

Failures ==
    \/ \E i \in DOMAIN inflight : ServerFail(i)
    \/ \E i \in DOMAIN inflight : NetworkError(i)

PollOps ==
    \/ \E poll \in Range(pollOptions) : changePoll(poll)
    \/ \E i \in DOMAIN inflight : changePollResume(i)

RangeOps ==
    \/ \E value \in 1..MaxInput : changeMin(value)
    \/ \E value \in 1..MaxInput : changeMax(value)
    \/ retypeInput

RuleOps ==
    \/ \E party1 \in DropdownValues, party2 \in DropdownValues :
           addExclusion(party1, party2)
    \/ \E party1 \in DropdownValues, party2 \in DropdownValues :
           addInclusion(party1, party2)
    \/ \E index \in DOMAIN exclusions : removeExclusion(index)
    \/ \E index \in DOMAIN inclusions : removeInclusion(index)

CoalitionOps == \E i \in DOMAIN inflight : updateCoalitionsResume(i)

SelectOps ==
    \/ \E index \in DOMAIN partyTable : toggleCheckbox(index)
    \/ \E index \in DOMAIN coalitionTable : selectCoalition(index)
    \/ \E i \in DOMAIN inflight : selectCoalitionResume(i)

DragOps ==
    \/ \E index \in DOMAIN spectrum : startDrag(index, ContainerRect)
    \/ \E e \in MousePoints : handleMouseUp(e)
    \/ \E i \in DOMAIN inflight : handleMouseUpResume(i)

CircleOps ==
    \/ \E index \in DOMAIN spectrum : onclick(index)

Next ==
    \/ Page
    \/ Server
    \/ Failures
    \/ PollOps
    \/ RangeOps
    \/ RuleOps
    \/ CoalitionOps
    \/ SelectOps
    \/ DragOps
    \/ CircleOps

\* every handler, every interleaving
Spec == Init /\ [][Next]_vars

-----------------------------------------------------------------------------
(* Scenarios: the system with the user keeping to some of the controls *)

\* the user waits for the answer to one request before causing the next
Sequential == Len(inflight') <= 1

PollOpsSequential ==
    \/ \E poll \in Range(pollOptions) : changePoll(poll) /\ Sequential
    \/ \E i \in DOMAIN inflight : changePollResume(i)

RuleOpsSequential ==
    \/ \E party1 \in DropdownValues, party2 \in DropdownValues :
           addExclusion(party1, party2) /\ Sequential
    \/ \E party1 \in DropdownValues, party2 \in DropdownValues :
           addInclusion(party1, party2) /\ Sequential
    \/ \E index \in DOMAIN exclusions : removeExclusion(index) /\ Sequential
    \/ \E index \in DOMAIN inclusions : removeInclusion(index) /\ Sequential

RangeOpsSequential ==
    \/ \E value \in 1..MaxInput : changeMin(value) /\ Sequential
    \/ \E value \in 1..MaxInput : changeMax(value) /\ Sequential

\* the rule controls and the poll dropdown, used sequentially
SpecRules ==
    Init /\ [][Page \/ Server \/ PollOpsSequential \/ RuleOpsSequential
                    \/ CoalitionOps]_vars

\* no party has been dragged: both rosters are as the datasets give them and
\* the info panel is still hidden
NothingDragged ==
    /\ dragState = Idle
    /\ partyInfo = NULL
    /\ srvParties \in { Dataset(Polls[k]) : k \in DOMAIN Polls }
    /\ parties \in { Dataset(Polls[k]) : k \in DOMAIN Polls }
    /\ \A i \in DOMAIN inflight : inflight[i].url # "/api/update_position"

\* at most one rule is stored
SingleRule == Len(exclusions') + Len(inclusions') <= 1

NoRules == exclusions = <<>> /\ inclusions = <<>>

\* the rule controls while nothing has been dragged, one rule at a time
RuleOpsAlone ==
    \/ \E party1 \in DropdownValues, party2 \in DropdownValues :
           NothingDragged /\ addExclusion(party1, party2) /\ Sequential /\ SingleRule
    \/ \E party1 \in DropdownValues, party2 \in DropdownValues :
           NothingDragged /\ addInclusion(party1, party2) /\ Sequential /\ SingleRule
    \/ \E index \in DOMAIN exclusions :
           NothingDragged /\ removeExclusion(index) /\ Sequential
    \/ \E index \in DOMAIN inclusions :
           NothingDragged /\ removeInclusion(index) /\ Sequential

\* drags while no rule is stored
DragOpsAlone ==
    \/ \E index \in DOMAIN spectrum : NoRules /\ startDrag(index, ContainerRect)
    \/ \E e \in MousePoints : NoRules /\ handleMouseUp(e) /\ Sequential
    \/ \E i \in DOMAIN inflight : NoRules /\ handleMouseUpResume(i)

\* every caller of updateCoalitions, used sequentially: page load, the poll
\* dropdown and the range inputs, with either one rule at a time or drags
SpecRange ==
    Init /\ [][Page \/ Server \/ PollOpsSequential \/ RangeOpsSequential
                    \/ CoalitionOps \/ RuleOpsAlone \/ DragOpsAlone]_vars

\* the names of the parties of all datasets
AllNames == UNION { Range(Names(Dataset(Polls[k]))) : k \in DOMAIN Polls }

\* the rules addExclusion can build: one name, or two different names sorted
ExclusionRules ==
    { <<n>> : n \in AllNames }
        \cup { SortPair(q[1], q[2]) : q \in { r \in AllNames \X AllNames : r[1] # r[2] } }

\* the rules addInclusion can build: two different names, sorted
InclusionRules ==
    { SortPair(q[1], q[2]) : q \in { r \in AllNames \X AllNames : r[1] # r[2] } }

\* the lists of at most n rules
RuleLists(rules, n) == UNION { [ 1..k -> rules ] : k \in 0..n }

\* lists that addExclusion and addInclusion let come about: no two entries of
\* the two lists join to the same string
Storable(excl, incl) ==
    LET all == excl \o incl
    IN  \A i, j \in DOMAIN all : i # j => Join(all[i]) # Join(all[j])

\* the page is loaded with some roster and some stored rules, and
\* updateCoalitions has just sent its request for some range min <= max
InitEngine ==
    \E k \in DOMAIN Polls, minParties \in 1..MaxSize, maxParties \in 1..MaxSize,
       excl \in RuleLists(ExclusionRules, MaxRules),
       incl \in RuleLists(InclusionRules, MaxRules) :
        /\ minParties <= maxParties
        /\ Len(excl) + Len(incl) <= MaxRules
        /\ Storable(excl, incl)
        /\ parties = Dataset(Polls[k])
        /\ srvParties = Dataset(Polls[k])
        /\ exclusions = excl
        /\ inclusions = incl
        /\ dragState = Idle
        /\ minInput = minParties
        /\ maxInput = maxParties
        /\ pollOptions = Polls
        /\ partyOptions = populateDropdowns(Dataset(Polls[k]))
        /\ partyTable = populatePartyTable(Dataset(Polls[k]))
        /\ spectrum = updateSpectrum(Dataset(Polls[k]))
        /\ coalitionInfo = <<>>
        /\ coalitionTable = <<>>
        /\ coalitionCount = 0
        /\ partyInfo = NULL
        /\ mainVisible = TRUE
        /\ started = TRUE
        /\ timer = FALSE
        /\ alertMsg = ""
        /\ inflight = updateCoalitions(<<>>, minParties, maxParties, excl, incl).inflight

\* one coalition query: the engine answers it and the client displays the answer
SpecEngine == InitEngine /\ [][Server \/ CoalitionOps]_vars

\* the poll dropdown, the coalition table and the party checkboxes, with
\* requests overlapping and failing
SpecSelect ==
    Init /\ [][Page \/ Server \/ Failures \/ PollOps \/ CoalitionOps \/ SelectOps]_vars

DragOpsSequential ==
    \/ \E index \in DOMAIN spectrum : startDrag(index, ContainerRect)
    \/ \E e \in MousePoints : handleMouseUp(e) /\ Sequential
    \/ \E i \in DOMAIN inflight : handleMouseUpResume(i)

\* the poll dropdown and drags on the spectrum, one request at a time, with
\* requests failing
SpecDrag ==
    Init /\ [][Page \/ Server \/ Failures \/ PollOpsSequential \/ CoalitionOps
                    \/ DragOpsSequential]_vars

\* one drag after the page has loaded, in any layout and released anywhere
DragOpsAnywhere ==
    \/ \E index \in DOMAIN spectrum, rect \in ContainerRects :
           NothingDragged /\ startDrag(index, rect)
    \/ \E e \in ReleasePoints : handleMouseUp(e) /\ Sequential
    \/ \E i \in DOMAIN inflight : handleMouseUpResume(i)

SpecAxis == Init /\ [][Page \/ Server \/ CoalitionOps \/ DragOpsAnywhere]_vars

\* the server handles the requests in the order in which they were issued
ServerInOrder ==
    \E i \in DOMAIN inflight :
        /\ \A j \in 1..(i - 1) : ~ Pending(j)
        /\ ServerHandle(i)

\* the poll dropdown used without waiting for the answers, the server taking
\* the requests in issue order and the answers arriving in any order
SpecRoster == Init /\ [][Page \/ ServerInOrder \/ PollOps \/ CoalitionOps]_vars

\* the range inputs and one rule at a time on a fixed roster, each answer
\* awaited, and the same query sent again without waiting
SpecRepeat ==
    Init /\ [][Page \/ Server \/ CoalitionOps \/ RangeOpsSequential \/ RuleOpsAlone
                    \/ retypeInput]_vars

\* the range inputs, each answer awaited; the min input is also given a value
\* above every max
RangeOpsAbove ==
    \/ \E value \in 1..(MaxInput + 1) : changeMin(value) /\ Sequential
    \/ \E value \in 1..MaxInput : changeMax(value) /\ Sequential

SpecClamp == Init /\ [][Page \/ Server \/ CoalitionOps \/ RangeOpsAbove]_vars

\* the rule controls used without waiting for the answers, one rule at a time
RuleOpsOverlapping ==
    \/ \E party1 \in DropdownValues, party2 \in DropdownValues :
           addExclusion(party1, party2) /\ SingleRule
    \/ \E party1 \in DropdownValues, party2 \in DropdownValues :
           addInclusion(party1, party2) /\ SingleRule
    \/ \E index \in DOMAIN exclusions : removeExclusion(index)
    \/ \E index \in DOMAIN inclusions : removeInclusion(index)

\* the rule controls on a fixed roster, used without waiting for the answers,
\* which arrive in any order
SpecOverlap == Init /\ [][Page \/ Server \/ CoalitionOps \/ RuleOpsOverlapping]_vars

\* Presses, releases and clicks on party circles, one request at a time.
SpecClick ==
    Init /\ [][Page \/ Server \/ CoalitionOps \/ DragOpsSequential
                    \/ CircleOps]_vars

\* at most two requests are out at a time
Paired == Len(inflight') <= 2

DragOpsPaired ==
    \/ \E index \in DOMAIN spectrum : startDrag(index, ContainerRect)
    \/ \E e \in MousePoints : handleMouseUp(e) /\ Paired
    \/ \E i \in DOMAIN inflight : handleMouseUpResume(i)

\* drags on the spectrum in every interleaving of presses, releases and
\* answers of up to two requests, with requests failing
SpecRelease ==
    Init /\ [][Page \/ Server \/ Failures \/ CoalitionOps \/ DragOpsPaired]_vars

\* an update_position request is answered or fails
SettlePosition ==
    \E i \in DOMAIN inflight :
        /\ inflight[i].url = "/api/update_position"
        /\ ServerHandle(i) \/ NetworkError(i)

\* SpecRelease where every update_position request settles and every settled
\* one has its continuation run
SpecReleaseFair ==
    /\ SpecRelease
    /\ WF_vars(SettlePosition)
    /\ WF_vars(\E i \in DOMAIN inflight : handleMouseUpResume(i))

\* the update_position requests that are out or wait for their continuation
PositionRequests ==
    { i \in DOMAIN inflight : inflight[i].url = "/api/update_position" }

\* a press starts a drag only when the drag before it is over: the drag state
\* is idle and every update_position request has had its continuation run
DragOpsOneAtATime ==
    \/ \E index \in DOMAIN spectrum :
           /\ dragState = Idle
           /\ PositionRequests = {}
           /\ startDrag(index, ContainerRect)
    \/ \E e \in MousePoints : handleMouseUp(e)
    \/ \E i \in DOMAIN inflight : handleMouseUpResume(i)

\* one drag at a time, with any number of mouseup events during it
SpecOneDrag ==
    Init /\ [][Page \/ Server \/ CoalitionOps \/ DragOpsOneAtATime]_vars

-----------------------------------------------------------------------------
(* Properties of the constraint set *)

\* the alerts with which addExclusion and addInclusion reject a request
RuleRejections ==
    { "Please select at least one party", "Please select two parties",
      "Please select two different parties", "This exclusion already exists",
      "This inclusion already exists",
      "These parties are already set as inclusions",
      "These parties are already set as exclusions" }

\* the requests in flight, without their answers
Requests(net) == [ i \in DOMAIN net |-> [ url |-> net[i].url, body |-> net[i].body ] ]

\* C1: no stored exclusion and stored inclusion name the same set of parties.
NoRuleBothExcludedAndIncluded ==
    \A i \in DOMAIN exclusions : \A j \in DOMAIN inclusions :
        Range(exclusions[i]) # Range(inclusions[j])

\* C1 happens: with an inclusion stored, addExclusion has refused the same pair
ConflictRefused ==
    /\ alertMsg = "These parties are already set as inclusions"
    /\ inclusions # <<>>

\* C2: no two stored exclusions, and no two stored inclusions, name the same set
\* of parties, in whichever order the parties were picked.
NoDuplicateRule ==
    /\ \A i, j \in DOMAIN exclusions :
           i # j => Range(exclusions[i]) # Range(exclusions[j])
    /\ \A i, j \in DOMAIN inclusions :
           i # j => Range(inclusions[i]) # Range(inclusions[j])

\* C2 happens: a two-party exclusion is stored and addExclusion has refused a
\* second one for the same parties
DuplicateRefused ==
    /\ alertMsg = "This exclusion already exists"
    /\ \E i \in DOMAIN exclusions : Len(exclusions[i]) = 2

\* C3: a step that ends with one of the rejections of addExclusion/addInclusion
\* leaves both lists as they were and issues no request.
RejectionChangesNothing ==
    [][ alertMsg' \in RuleRejections =>
            /\ exclusions' = exclusions
            /\ inclusions' = inclusions
            /\ Requests(inflight') = Requests(inflight) ]_vars

\* C3 happens: addInclusion has refused a pair that is stored as an exclusion
RejectionSeen ==
    /\ alertMsg = "These parties are already set as exclusions"
    /\ exclusions # <<>>

-----------------------------------------------------------------------------
(* Properties of the requests *)

MinMaxAlert == "Minimum parties cannot be greater than maximum parties"

\* C4: no /api/coalitions request carries min_parties greater than max_parties.
NoInvalidRangeRequest ==
    \A i \in DOMAIN inflight :
        inflight[i].url = "/api/coalitions" =>
            inflight[i].body.min_parties <= inflight[i].body.max_parties

\* C4 happens: updateCoalitions has run with min > max, alerted and sent nothing
InvalidRangeRefused ==
    /\ alertMsg = MinMaxAlert
    /\ inflight = <<>>

-----------------------------------------------------------------------------
(* Properties of the coalition engine's answers *)

\* the /api/coalitions requests that have been answered and not yet displayed
Answered ==
    { i \in DOMAIN inflight :
        Settled(i, "/api/coalitions") /\ ~ inflight[i].resp[1].threw }

\* the set of names `members` breaks none of the rules
KeepsRules(members, excl, incl) ==
    /\ \A e \in DOMAIN excl :
           /\ Len(excl[e]) = 1 => excl[e][1] \notin members
           /\ Len(excl[e]) = 2 => ~ (excl[e][1] \in members /\ excl[e][2] \in members)
    /\ \A n \in DOMAIN incl :
           \/ incl[n][1] \in members /\ incl[n][2] \in members
           \/ incl[n][1] \notin members /\ incl[n][2] \notin members

\* C5: every coalition returned for a query breaks none of the query's rules:
\* it holds no party of a 1-party exclusion, not both parties of a 2-party
\* exclusion, and both parties or neither of every inclusion.
ReturnedCoalitionsKeepRules ==
    \A i \in Answered :
        \A k \in DOMAIN inflight[i].resp[1].data.coalitions :
            KeepsRules(Range(inflight[i].resp[1].data.coalitions[k].parties),
                       inflight[i].body.exclusions, inflight[i].body.inclusions)

\* C5 happens: with the inclusion [GL, PvdA] and min = max = 2 on the roster
\* GL, PvdA, VVD, the only coalition returned is {GL, PvdA}
InclusionPairAlone ==
    \E i \in Answered :
        /\ inflight[i].body.inclusions = << <<"GL", "PvdA">> >>
        /\ inflight[i].body.exclusions = <<>>
        /\ inflight[i].body.min_parties = 2
        /\ inflight[i].body.max_parties = 2
        /\ srvParties = Dataset("poll-a")
        /\ { Range(inflight[i].resp[1].data.coalitions[k].parties) :
                k \in DOMAIN inflight[i].resp[1].data.coalitions } = { {"GL", "PvdA"} }

\* C6: every coalition returned for a query has between min_parties and
\* max_parties members.
ReturnedCoalitionsWithinSizes ==
    \A i \in Answered :
        \A k \in DOMAIN inflight[i].resp[1].data.coalitions :
            /\ inflight[i].body.min_parties
                   <= Len(inflight[i].resp[1].data.coalitions[k].parties)
            /\ Len(inflight[i].resp[1].data.coalitions[k].parties)
                   <= inflight[i].body.max_parties

\* C6 happens: a query for 2..3 parties is answered with coalitions of 2 and of 3
SizesTwoAndThreeReturned ==
    \E i \in Answered :
        /\ inflight[i].body.min_parties = 2
        /\ inflight[i].body.max_parties = 3
        /\ { Len(inflight[i].resp[1].data.coalitions[k].parties) :
                k \in DOMAIN inflight[i].resp[1].data.coalitions } = {2, 3}

\* the sets of seat-holding parties of the registry that the query asks for
Wanted(registry, body) ==
    { S \in SUBSET { registry[j].name : j \in { n \in DOMAIN registry : registry[n].seats > 0 } } :
        /\ body.min_parties <= Cardinality(S)
        /\ Cardinality(S) <= body.max_parties
        /\ KeepsRules(S, body.exclusions, body.inclusions) }

\* C7: every set of seat-holding parties of the roster whose size is within
\* the range and that breaks no rule is returned exactly once, and total_count
\* is the number of these sets.
ReturnedCoalitionsComplete ==
    \A i \in Answered :
        /\ \A S \in Wanted(srvParties, inflight[i].body) :
               Cardinality({ k \in DOMAIN inflight[i].resp[1].data.coalitions :
                               Range(inflight[i].resp[1].data.coalitions[k].parties) = S }) = 1
        /\ inflight[i].resp[1].data.total_count
               = Cardinality(Wanted(srvParties, inflight[i].body))

\* C7 happens: on the roster GL, PvdA, VVD a query for 1..3 parties with GL
\* excluded is answered with PvdA, VVD and {PvdA, VVD}
FilteredListReturned ==
    \E i \in Answered :
        /\ srvParties = Dataset("poll-a")
        /\ inflight[i].body.exclusions = << <<"GL">> >>
        /\ inflight[i].body.inclusions = <<>>
        /\ inflight[i].body.min_parties = 1
        /\ inflight[i].body.max_parties = 3
        /\ inflight[i].resp[1].data.total_count = 3

-----------------------------------------------------------------------------
(* Properties of the selection and of failed calls *)

\* C8: whenever updateVisualization writes the coalition info, it shows a
\* majority exactly when the seats of the checked parties exceed half of the
\* seats of the roster.
MajorityIsMoreThanHalf ==
    [][ coalitionInfo' # coalitionInfo =>
            (coalitionInfo'[1].majority
                <=> 2 * coalitionInfo'[1].seats > SumSeats(parties')) ]_vars

\* C9: when a row of the coalition table is selected, the seat total shown is
\* the sum of the seats, in the client roster, of exactly the parties of that
\* row's coalition.
SelectedSeatsAreTheCoalitions ==
    [][ \A index \in DOMAIN coalitionTable :
            selectCoalition(index) =>
                LET members == SelectSeq(parties,
                        LAMBDA p : p.name \in Range(coalitionTable[index].parties))
                IN  /\ Range(Names(members)) = Range(coalitionTable[index].parties)
                    /\ coalitionInfo'[1].seats = SumSeats(members) ]_vars

\* request i is a change_poll or update_position call that has failed
FailedCall(i) ==
    /\ i \in DOMAIN inflight
    /\ inflight[i].url \in {"/api/change_poll", "/api/update_position"}
    /\ inflight[i].resp # NULL
    /\ (inflight[i].resp[1].threw \/ ~ inflight[i].resp[1].data.success)

\* a drag is in progress that request i does not come from
OtherDrag(i) ==
    /\ dragState.isDragging
    /\ dragState.dragParty # NULL
    /\ inflight[i].url = "/api/update_position"
        => dragState.dragParty[1].name # inflight[i].body.party_name

\* C10: the continuation of a failed change_poll or update_position call
\* leaves parties, exclusions and inclusions as they were, and leaves what
\* later requests are made from as if the call had not been made: the range
\* inputs, and a drag in progress that is not the call's own.
FailedCallLeavesNoTrace ==
    [][ \A i \in DOMAIN inflight :
            (FailedCall(i) /\ (changePollResume(i) \/ handleMouseUpResume(i))) =>
                /\ parties' = parties
                /\ exclusions' = exclusions
                /\ inclusions' = inclusions
                /\ minInput' = minInput
                /\ maxInput' = maxInput
                /\ OtherDrag(i) => dragState' = dragState ]_vars

-----------------------------------------------------------------------------
(* Properties of the position updates *)

\* C11: every update_position request carries an economic and a social value
\* inside [-1, 1].
PositionRequestsInRange ==
    \A i \in DOMAIN inflight :
        inflight[i].url = "/api/update_position" =>
            /\ inflight[i].body.economic # NULL
            /\ inflight[i].body.social # NULL
            /\ inflight[i].body.economic[1] \in -100..100
            /\ inflight[i].body.social[1] \in -100..100

-----------------------------------------------------------------------------
(* Properties of overlapping requests *)

\* C12: once every outstanding answer has been delivered, the client's roster
\* is the one returned for the roster change issued last; with the server
\* taking the requests in issue order, that is the server's registry.
RosterIsTheLatest ==
    (mainVisible /\ inflight = <<>>) => parties = srvParties

\* request i is a change_poll or update_position call that has succeeded
SucceededCall(i) ==
    /\ i \in DOMAIN inflight
    /\ inflight[i].url \in {"/api/change_poll", "/api/update_position"}
    /\ inflight[i].resp # NULL
    /\ ~ inflight[i].resp[1].threw
    /\ inflight[i].resp[1].data.success

\* C13: the continuation of a successful change_poll or update_position call
\* issues, min being at most max, a new /api/coalitions request that carries
\* the min and max inputs and the exclusions and inclusions as they are.
RosterChangeRefreshesCoalitions ==
    [][ \A i \in DOMAIN inflight :
            ( /\ SucceededCall(i)
              /\ changePollResume(i) \/ handleMouseUpResume(i)
              /\ minInput <= maxInput ) =>
                /\ Len(inflight') = Len(inflight)
                /\ inflight'[Len(inflight')] =
                       [ url |-> "/api/coalitions",
                         body |-> [ min_parties |-> minInput, max_parties |-> maxInput,
                                    exclusions |-> exclusions, inclusions |-> inclusions ],
                         resp |-> NULL ] ]_vars

\* C13 happens: the roster has been switched to poll-b while PvdA was excluded;
\* the request carrying that exclusion is out and the list on display is
\* still the one of the former roster
RefreshAfterSwitch ==
    /\ parties = Dataset("poll-b")
    /\ Len(inflight) = 1
    /\ inflight[1].url = "/api/coalitions"
    /\ inflight[1].body.exclusions = << <<"PvdA">> >>
    /\ \E k \in DOMAIN coalitionTable : "GL" \in Range(coalitionTable[k].parties)

-----------------------------------------------------------------------------
(* Properties of repeated queries *)

\* the query updateCoalitions sends for the inputs as they are
CurrentQuery ==
    [ min_parties |-> minInput, max_parties |-> maxInput,
      exclusions |-> exclusions, inclusions |-> inclusions ]

\* the step ends with a new /api/coalitions request
QueryIssued ==
    /\ inflight' # <<>>
    /\ inflight'[Len(inflight')].url = "/api/coalitions"
    /\ inflight'[Len(inflight')].resp = NULL
    /\ \/ Len(inflight') > Len(inflight)
       \/ \E i \in DOMAIN inflight :
              initializeResume(i) \/ changePollResume(i) \/ handleMouseUpResume(i)

\* C14: a second updateCoalitions call with the roster, the inputs and the
\* rules as they were at the first sends the same body, the current inputs,
\* and leaves them as they are; the two answers are the same list, in the same order, with the same
\* count, and each is displayed as it is.
RepeatedQuerySameAnswer ==
    /\ [][ QueryIssued => inflight'[Len(inflight')].body = CurrentQuery' ]_vars
    /\ [][ retypeInput =>
             /\ Len(inflight') = Len(inflight) + 1
             /\ inflight'[Len(inflight')].body = CurrentQuery
             /\ CurrentQuery' = CurrentQuery
             /\ parties' = parties ]_vars
    /\ [][ \A i \in DOMAIN inflight :
             (updateCoalitionsResume(i) /\ ~ inflight[i].resp[1].threw) =>
                 /\ coalitionTable' = inflight[i].resp[1].data.coalitions
                 /\ coalitionCount' = inflight[i].resp[1].data.total_count
                 /\ CurrentQuery' = CurrentQuery
                 /\ parties' = parties
                 /\ \A j \in DOMAIN inflight :
                        ( /\ inflight[j].url = "/api/coalitions"
                          /\ inflight[j].body = inflight[i].body
                          /\ inflight[j].resp # NULL ) =>
                            inflight[j].resp[1].data = inflight[i].resp[1].data ]_vars

\* C14 happens: two requests for the same query, with a rule in it, have both
\* been answered, with more than one coalition
SameQueryAnsweredTwice ==
    /\ Len(inflight) = 2
    /\ inflight[1].url = "/api/coalitions"
    /\ inflight[2].url = "/api/coalitions"
    /\ inflight[1].body = inflight[2].body
    /\ inflight[1].body.exclusions # <<>>
    /\ inflight[1].resp # NULL
    /\ inflight[2].resp # NULL
    /\ Len(inflight[1].resp[1].data.coalitions) > 1

-----------------------------------------------------------------------------
(* Properties of the page load *)

\* C15: when /api/initialize answers with success = false or the request
\* throws, the continuation of initialize leaves the roster and both rule
\* lists empty and issues no /api/coalitions request.
FailedInitializeLeavesPageEmpty ==
    [][ \A i \in DOMAIN inflight :
            ( /\ initializeResume(i)
              /\ inflight[i].resp[1].threw \/ ~ inflight[i].resp[1].data.success ) =>
                /\ parties' = <<>>
                /\ exclusions' = <<>>
                /\ inclusions' = <<>>
                /\ \A j \in DOMAIN inflight' : inflight'[j].url # "/api/coalitions" ]_vars

\* C15 happens: initialize has alerted the failure answer and nothing is out
InitializeRefused ==
    /\ alertMsg = "Error"
    /\ inflight = <<>>
    /\ ~ mainVisible

-----------------------------------------------------------------------------
(* Properties of the rules across rosters *)

\* C16: every party named in a stored exclusion or inclusion is a party of the
\* roster that holds seats.
RulesNameSeatHolders ==
    \A name \in UNION ( { Range(exclusions[i]) : i \in DOMAIN exclusions }
                            \cup { Range(inclusions[i]) : i \in DOMAIN inclusions } ) :
        \E k \in DOMAIN parties : parties[k].name = name /\ parties[k].seats > 0

\* the set of names `members` is the set of names of no stored rule
NamedByNoRule(members) ==
    /\ \A i \in DOMAIN exclusions : Range(exclusions[i]) # members
    /\ \A i \in DOMAIN inclusions : Range(inclusions[i]) # members

\* C17: addExclusion and addInclusion accept every well-formed rule whose set
\* of party names is the set of names of no stored exclusion and no stored
\* inclusion.
NewRuleAccepted ==
    [][ \A party1 \in DropdownValues, party2 \in DropdownValues :
            /\ ( /\ addExclusion(party1, party2)
                 /\ party1 # ""
                 /\ party1 # party2
                 /\ NamedByNoRule({party1, party2} \ {""}) ) =>
                   exclusions' = Append(exclusions, exclusionOf(party1, party2))
            /\ ( /\ addInclusion(party1, party2)
                 /\ party1 # ""
                 /\ party2 # ""
                 /\ party1 # party2
                 /\ NamedByNoRule({party1, party2}) ) =>
                   inclusions' = Append(inclusions, SortPair(party1, party2)) ]_vars

-----------------------------------------------------------------------------
(* Properties of the range inputs *)

\* C18: when the min input is changed to a value greater than max, the handler
\* sets the min input to max and sends a request that carries the two values
\* then shown in the inputs.
MinAboveMaxClampsAndRetries ==
    [][ \A value \in 1..(MaxInput + 1) :
            (changeMin(value) /\ value > maxInput) =>
                /\ minInput' = maxInput
                /\ inflight' = Append(inflight,
                                      [ url |-> "/api/coalitions", body |-> CurrentQuery',
                                        resp |-> NULL ]) ]_vars

\* C19: once every answer has been delivered, the list and the count on
\* display are the answer to the request issued last, which carries the
\* inputs and rules as they are.
DisplayIsTheLatestAnswer ==
    (mainVisible /\ inflight = <<>>) =>
        /\ coalitionTable = Coalitions(srvParties, CurrentQuery).coalitions
        /\ coalitionCount = Coalitions(srvParties, CurrentQuery).total_count

-----------------------------------------------------------------------------
(* Clicks on party circles *)

\* The circle of spectrum[index] has been pressed (mousedown) and released
\* (mouseup) and the answer to the release's request has not arrived yet.
PressedAndReleased(index) ==
    /\ dragState.isDragging
    /\ dragState.dragParty = << spectrum[index] >>
    /\ \E i \in DOMAIN inflight :
          /\ inflight[i].url = "/api/update_position"
          /\ inflight[i].body.party_name = spectrum[index].name

\* C20: a click that follows a press and a release on a party circle, before
\* the update_position answer arrives, toggles that party's checkbox and
\* shows that party in the info panel.
ClickAfterReleaseToggles ==
    \A index \in DOMAIN spectrum :
        PressedAndReleased(index) =>
            LET row == checkboxOf(partyTable, spectrum[index].name)
            IN  /\ row # 0
                /\ clicked(index).partyTable[row].checked = ~ partyTable[row].checked
                /\ clicked(index).partyInfo = << spectrum[index] >>

-----------------------------------------------------------------------------
(* Properties of the drag state *)

\* a party is being dragged and an update_position request of a release is
\* out or waits for its continuation
Released ==
    /\ dragState.isDragging
    /\ \E i \in DOMAIN inflight : inflight[i].url = "/api/update_position"

\* C21: once a drag has been released (startDrag, then a mouseup that sends
\* update_position), the drag state returns to idle, whether the request
\* succeeds, is answered success=false or throws, provided it settles.
DragTerminates == Released ~> dragState = Idle

\* a drag has been released and its request answered with success: its party
\* is in the info panel, nothing is in flight and nothing is dragged
DragEnded ==
    /\ dragState = Idle
    /\ inflight = <<>>
    /\ spectrum # <<>>
    /\ partyInfo # NULL

\* C22: between a startDrag and the return of the drag state to idle at most
\* one update_position request is sent: with one drag at a time, no two
\* update_position requests are ever out together.
OnePositionRequestPerDrag == Cardinality(PositionRequests) <= 1

\* C23: every continuation of handleMouseUp after its await (the lookup of
\* the updated party and the clean-up) finds dragState.dragParty non-null.
ContinuationFindsDragParty ==
    [][ \A i \in DOMAIN inflight :
            handleMouseUpResume(i) => dragState.dragParty # NULL ]_vars

\* C24: when a party is pressed while the update_position request of an
\* earlier drag of another party is out, the continuation of that request
\* leaves the new drag as it is (isDragging, dragParty and containerRect).
DragEndedOnlyByItsRelease ==
    [][ \A i \in DOMAIN inflight :
            ( /\ handleMouseUpResume(i)
              /\ dragState.isDragging
              /\ dragState.dragParty # NULL
              /\ dragState.dragParty[1].name # inflight[i].body.party_name
              /\ \A j \in PositionRequests :
                    inflight[j].body.party_name # dragState.dragParty[1].name ) =>
                dragState' = dragState ]_vars

-----------------------------------------------------------------------------
(* Properties of the coalition table *)

\* C25: after a click on a row of the coalition table the checked parties are
\* exactly the parties of that row's coalition, and the select_coalition
\* request that the click sends carries exactly those parties.
SelectionIsTheCoalition ==
    [][ \A index \in DOMAIN coalitionTable :
            selectCoalition(index) =>
                /\ Range(selectedParties(partyTable')) =
                       Range(coalitionTable[index].parties)
                /\ inflight' = Fetch(inflight, "/api/select_coalition",
                                     [ parties |-> coalitionTable[index].parties ]) ]_vars

====
